---- MODULE Spec2Model ----
(***************************************************************************)
(* Model of the answer orchestration pipeline of the Maths Professor RAG   *)
(* application: the content guardrails (guardrails/content_filter.py), the *)
(* orchestrator (rag/enhanced_rag_orchestrator.py) and its collaborators   *)
(* (rag/vector_store.py, mcp/web_search_agent.py, llm/groq_client.py).     *)
(*                                                                         *)
(* A Python str is a sequence of one-character strings.  A float score is  *)
(* an integer: similarity scores in hundredths, math confidence in         *)
(* thousandths, where a value one above or below a multiple of 100 stands  *)
(* for the IEEE double just above or below that tenth                      *)
(* (301 is 0.30000000000000004).                                           *)
(***************************************************************************)
EXTENDS Integers, Sequences, FiniteSets, TLC

----------------------------------------------------------------------------
(* Bounds of the model *)

\* most leading and most trailing blanks around a question or an answer
MaxPad == 1
\* most chunks the collection holds (collection.query returns at most
\* min(n_results, MaxDocs) hits)
MaxDocs == 2
\* most answer_question calls of one session
MaxCalls == 2

----------------------------------------------------------------------------
(* Text helpers: str.lower, str.strip, the "in" operator, re.search *)

Range(s) == {s[i] : i \in DOMAIN s}

Uppers ==
  <<"A","B","C","D","E","F","G","H","I","J","K","L","M",
    "N","O","P","Q","R","S","T","U","V","W","X","Y","Z">>

Lowers ==
  <<"a","b","c","d","e","f","g","h","i","j","k","l","m",
    "n","o","p","q","r","s","t","u","v","w","x","y","z">>

Digits == {"0","1","2","3","4","5","6","7","8","9"}

\* characters str.strip() removes
Whitespace == {" ", "\n", "\t", "\r"}

\* the lower-case letter of every upper-case letter
LowerOf ==
  [c \in Range(Uppers) |-> Lowers[CHOOSE i \in DOMAIN Uppers : Uppers[i] = c]]

LowerChar(c) ==
  IF c \in DOMAIN LowerOf THEN LowerOf[c] ELSE c

Lower(text) == [i \in DOMAIN text |-> LowerChar(text[i])]

\* kw in text
Contains(text, kw) ==
  \E i \in 0..(Len(text) - Len(kw)) : SubSeq(text, i + 1, i + Len(kw)) = kw

Strip(text) ==
  IF \A i \in DOMAIN text : text[i] \in Whitespace THEN << >>
  ELSE SubSeq(text,
              CHOOSE i \in DOMAIN text :
                /\ text[i] \notin Whitespace
                /\ \A j \in 1..(i - 1) : text[j] \in Whitespace,
              CHOOSE i \in DOMAIN text :
                /\ text[i] \notin Whitespace
                /\ \A j \in (i + 1)..Len(text) : text[j] \in Whitespace)

\* the word characters of \w
IsWordChar(c) == c \in Range(Lowers) \cup Range(Uppers) \cup Digits \cup {"_"}

\* re.findall(r'\b\w+\b', text): the maximal runs of word characters
WordTokens(text) ==
  {SubSeq(text, i, j) : <<i, j>> \in
     {p \in (DOMAIN text) \X (DOMAIN text) :
        /\ p[1] <= p[2]
        /\ \A k \in p[1]..p[2] : IsWordChar(text[k])
        /\ (p[1] = 1 \/ ~IsWordChar(text[p[1] - 1]))
        /\ (p[2] = Len(text) \/ ~IsWordChar(text[p[2] + 1]))}}

Blanks(n) == [i \in 1..n |-> " "]

Min(a, b) == IF a <= b THEN a ELSE b

----------------------------------------------------------------------------
(* ContentGuardrails: vocabulary *)

math_keywords ==
  {
    <<"a","l","g","e","b","r","a">>, <<"c","a","l","c","u","l","u","s">>,
    <<"g","e","o","m","e","t","r","y">>, <<"t","r","i","g","o","n","o","m","e","t","r","y">>,
    <<"s","t","a","t","i","s","t","i","c","s">>, <<"p","r","o","b","a","b","i","l","i","t","y">>,
    <<"e","q","u","a","t","i","o","n">>, <<"d","e","r","i","v","a","t","i","v","e">>,
    <<"i","n","t","e","g","r","a","l">>, <<"m","a","t","r","i","x">>, <<"v","e","c","t","o","r">>,
    <<"f","u","n","c","t","i","o","n">>, <<"t","h","e","o","r","e","m">>, <<"p","r","o","o","f">>,
    <<"s","o","l","v","e">>, <<"c","a","l","c","u","l","a","t","e">>, <<"g","r","a","p","h">>,
    <<"f","o","r","m","u","l","a">>, <<"n","u","m","b","e","r">>,
    <<"p","o","l","y","n","o","m","i","a","l">>, <<"e","x","p","o","n","e","n","t","i","a","l">>,
    <<"l","o","g","a","r","i","t","h","m">>, <<"d","i","f","f","e","r","e","n","t","i","a","l">>,
    <<"l","i","m","i","t">>, <<"s","e","r","i","e","s">>, <<"s","e","q","u","e","n","c","e">>,
    <<"a","n","g","l","e">>, <<"t","r","i","a","n","g","l","e">>, <<"c","i","r","c","l","e">>,
    <<"s","i","n","e">>, <<"c","o","s","i","n","e">>, <<"t","a","n","g","e","n","t">>,
    <<"m","e","a","n">>, <<"m","e","d","i","a","n">>, <<"v","a","r","i","a","n","c","e">>,
    <<"d","i","s","t","r","i","b","u","t","i","o","n">>,
    <<"r","e","g","r","e","s","s","i","o","n">>, <<"t","o","p","o","l","o","g","y">>,
    <<"a","n","a","l","y","s","i","s">>, <<"l","i","n","e","a","r">>,
    <<"o","p","t","i","m","i","z","a","t","i","o","n">>, <<"p","i">>, <<"r","a","t","i","o">>
  }

forbidden_keywords ==
  {
    <<"v","i","o","l","e","n","c","e">>, <<"w","e","a","p","o","n">>, <<"h","a","t","e">>,
    <<"e","x","p","l","i","c","i","t">>, <<"i","l","l","e","g","a","l">>, <<"d","r","u","g">>,
    <<"n","s","f","w">>, <<"a","d","u","l","t">>, <<"h","a","r","m","f","u","l">>,
    <<"s","u","i","c","i","d","e">>, <<"b","o","m","b">>, <<"k","i","l","l">>
  }

refusal_patterns ==
  {
    <<"i"," ","d","o","n","'","t"," ","k","n","o","w">>, <<"i"," ","c","a","n","n","o","t">>,
    <<"i","'","m"," ","n","o","t"," ","s","u","r","e">>,
    <<"i"," ","d","o","n","'","t"," ","h","a","v","e">>,
    <<"c","a","n","n","o","t"," ","d","e","t","e","r","m","i","n","e">>,
    <<"i","n","s","u","f","f","i","c","i","e","n","t"," ","i","n","f","o","r","m","a","t","i","o","n">>
  }

explanation_words ==
  {
    <<"b","e","c","a","u","s","e">>, <<"t","h","e","r","e","f","o","r","e">>, <<"t","h","u","s">>,
    <<"h","e","n","c","e">>, <<"s","i","n","c","e">>,
    <<"w","h","i","c","h"," ","m","e","a","n","s">>, <<"s","t","e","p">>, <<"f","i","r","s","t">>,
    <<"s","e","c","o","n","d">>, <<"n","e","x","t">>, <<"f","i","n","a","l","l","y">>,
    <<"e","x","p","l","a","n","a","t","i","o","n">>
  }

question_words ==
  {
    <<"w","h","a","t">>, <<"h","o","w">>, <<"w","h","y">>, <<"w","h","e","n">>,
    <<"w","h","e","r","e">>, <<"s","o","l","v","e">>, <<"f","i","n","d">>,
    <<"c","a","l","c","u","l","a","t","e">>, <<"p","r","o","v","e">>
  }

MathSymbols ==
  {"+","-","*","/","=","<",">","U+2264","U+2265","U+2260","U+221E","U+2211","U+220F","U+222B","U+221A","U+03C0"}

----------------------------------------------------------------------------
(* ContentGuardrails: verdicts and checks *)

\* validate_input: shortest accepted trimmed input
MinInputLen == 5

\* validate_output: shortest accepted trimmed response
MinOutputLen == 20

\* validate_output: a response longer than this earns a quality point
LongResponseLen == 100

\* validate_input: polarity (hundredths) below which the tone is negative
NegativePolarity == 0 - 50

\* is_math_related: confidence (thousandths) above which text is math
MathThreshold == 300

\* the result of TextBlob(user_input).sentiment.polarity: the polarity in
\* hundredths, or an exception
Sentiments ==
  {[raises |-> FALSE, polarity |-> 0 - 60],
   [raises |-> FALSE, polarity |-> 0 - 50],
   [raises |-> TRUE, polarity |-> 0]}

contains_numbers_or_symbols(text) ==
  \/ \E i \in DOMAIN text : text[i] \in Digits
  \/ \E i \in DOMAIN text : text[i] \in MathSymbols
  \/ \E i \in DOMAIN text : text[i] \in {"x", "y", "z", "n"}
  \/ Contains(text, <<"f", "(">>)
  \/ Contains(text, <<"g", "(">>)

HasForbidden(text_lower) ==
  \E keyword \in forbidden_keywords : Contains(text_lower, keyword)

InappropriateContent ==
  [is_valid |-> FALSE, reason |-> "inappropriate_content",
   message |-> "I can only help with mathematics education. Please ask a math-related question.",
   severity |-> "high"]

TooShort ==
  [is_valid |-> FALSE, reason |-> "too_short",
   message |-> "Please provide a more detailed question.", severity |-> "low"]

NegativeTone ==
  [is_valid |-> FALSE, reason |-> "negative_tone",
   message |-> "Please rephrase your question in a respectful manner.",
   severity |-> "medium"]

LowMathRelevance ==
  [is_valid |-> TRUE, reason |-> "low_math_relevance",
   message |-> "This doesn't seem to be a math question. I'm optimized for mathematics education.",
   severity |-> "low", warning |-> TRUE]

ValidInput(math_score) ==
  [is_valid |-> TRUE, reason |-> "valid", message |-> "Input validated successfully",
   severity |-> "none", math_score |-> math_score]

\* validate_input with the length check moved before the denylist check
validate_input_length_first(user_input, sentiment) ==
  LET input_lower == Lower(user_input)
      math_score == Cardinality({k \in math_keywords : Contains(input_lower, k)})
  IN IF Len(Strip(user_input)) < MinInputLen THEN TooShort
     ELSE IF HasForbidden(input_lower) THEN InappropriateContent
     ELSE IF ~sentiment.raises /\ sentiment.polarity < NegativePolarity THEN NegativeTone
     ELSE IF math_score = 0 /\ ~contains_numbers_or_symbols(user_input)
          THEN LowMathRelevance
     ELSE ValidInput(math_score)

\* validate_input measuring the untrimmed input
validate_input_no_strip(user_input, sentiment) ==
  LET input_lower == Lower(user_input)
      math_score == Cardinality({k \in math_keywords : Contains(input_lower, k)})
  IN IF HasForbidden(input_lower) THEN InappropriateContent
     ELSE IF Len(user_input) < MinInputLen THEN TooShort
     ELSE IF ~sentiment.raises /\ sentiment.polarity < NegativePolarity THEN NegativeTone
     ELSE IF math_score = 0 /\ ~contains_numbers_or_symbols(user_input)
          THEN LowMathRelevance
     ELSE ValidInput(math_score)

validate_input(user_input, sentiment) ==
  LET input_lower == Lower(user_input)
      math_score == Cardinality({k \in math_keywords : Contains(input_lower, k)})
  IN IF HasForbidden(input_lower) THEN InappropriateContent
     ELSE IF Len(Strip(user_input)) < MinInputLen THEN TooShort
     ELSE IF ~sentiment.raises /\ sentiment.polarity < NegativePolarity THEN NegativeTone
     ELSE IF math_score = 0 /\ ~contains_numbers_or_symbols(user_input)
          THEN LowMathRelevance
     ELSE ValidInput(math_score)

ResponseTooShort ==
  [is_valid |-> FALSE, reason |-> "response_too_short",
   message |-> "Generated response is too short. Regenerating...",
   severity |-> "medium"]

InappropriateOutput ==
  [is_valid |-> FALSE, reason |-> "inappropriate_output",
   message |-> "Response contains inappropriate content.", severity |-> "high"]

ValidOutput(response) ==
  LET response_lower == Lower(response)
      has_refusal == \E pattern \in refusal_patterns : Contains(response_lower, pattern)
      has_explanation == \E word \in explanation_words : Contains(response_lower, word)
      quality_score == (IF has_explanation THEN 1 ELSE 0)
                       + (IF Len(response) > LongResponseLen THEN 1 ELSE 0)
                       + (IF ~has_refusal THEN 1 ELSE 0)
  IN [is_valid |-> TRUE, reason |-> "valid", message |-> "Output validated successfully",
      severity |-> "none", quality_score |-> quality_score,
      has_refusal |-> has_refusal, has_explanation |-> has_explanation]

\* validate_output with the denylist check moved before the length check
validate_output_denylist_first(response) ==
  IF HasForbidden(Lower(response)) THEN InappropriateOutput
  ELSE IF Len(Strip(response)) < MinOutputLen THEN ResponseTooShort
  ELSE ValidOutput(response)

validate_output(response) ==
  IF Len(Strip(response)) < MinOutputLen THEN ResponseTooShort
  ELSE IF HasForbidden(Lower(response)) THEN InappropriateOutput
  ELSE ValidOutput(response)

\* keyword_count * 0.2 in IEEE doubles: 3 * 0.2 is 0.6000000000000001
TimesFifth(keyword_count) ==
  IF keyword_count = 3 THEN 601 ELSE 200 * keyword_count

\* a + b in IEEE doubles, on the values the confidence takes:
\* 0.2 + 0.1 = 0.30000000000000004, 0.7 + 0.1 = 0.7999999999999999,
\* 0.6 + 0.3 = 0.8999999999999999, 0.8999999999999999 + 0.1 = 0.9999999999999999
FloatAdd(a, b) ==
  IF a = 200 /\ b = 100 THEN 301
  ELSE IF a = 700 /\ b = 100 THEN 799
  ELSE IF a = 600 /\ b = 300 THEN 899
  ELSE IF a = 899 /\ b = 100 THEN 999
  ELSE a + b

\* the confidence without the 0.3 of the numeric or symbol pattern
is_math_related_no_symbols(text) ==
  LET text_lower == Lower(text)
      keyword_count == Cardinality({k \in math_keywords : Contains(text_lower, k)})
      c1 == IF keyword_count > 0 THEN FloatAdd(0, Min(TimesFifth(keyword_count), 600)) ELSE 0
      c3 == IF \E word \in question_words : Contains(text_lower, word)
            THEN FloatAdd(c1, 100) ELSE c1
  IN [is_math |-> c3 > MathThreshold, confidence |-> Min(c3, 1000)]

is_math_related(text) ==
  LET text_lower == Lower(text)
      keyword_count == Cardinality({k \in math_keywords : Contains(text_lower, k)})
      has_numbers == contains_numbers_or_symbols(text)
      c1 == IF keyword_count > 0 THEN FloatAdd(0, Min(TimesFifth(keyword_count), 600)) ELSE 0
      c2 == IF has_numbers THEN FloatAdd(c1, 300) ELSE c1
      c3 == IF \E word \in question_words : Contains(text_lower, word)
            THEN FloatAdd(c2, 100) ELSE c2
  IN [is_math |-> c3 > MathThreshold, confidence |-> Min(c3, 1000)]

----------------------------------------------------------------------------
(* Python None and Optional values: None is << >>, a value x is <<x>> *)

None == << >>

Some(x) == <<x>>

----------------------------------------------------------------------------
(* VectorStore.search *)

\* the chunks add_documents may have put in the collection, with the
\* metadata process_pdfs attaches
KnowledgeChunks ==
  {[text |-> "chunk-1", metadata |-> [source |-> "algebra.pdf"]],
   [text |-> "chunk-2", metadata |-> [source |-> "algebra.pdf"]],
   [text |-> "chunk-3", metadata |-> [source |-> "calculus.pdf"]]}

\* cosine distances (hundredths) collection.query may report
Distances == {50, 60, 61}

\* answer_question asks for n_results=3
n_results == 3

\* what collection.query returns: at most n_results hits on distinct chunks
\* of a collection of at most MaxDocs chunks, nearest first
QueryResults ==
  {hits \in UNION {[1..n -> [doc : KnowledgeChunks, distance : Distances]] :
                      n \in 0..Min(n_results, MaxDocs)} :
     /\ \A i, j \in DOMAIN hits : i < j => hits[i].doc # hits[j].doc
     /\ \A i, j \in DOMAIN hits : i < j => hits[i].distance <= hits[j].distance}

\* the hits formatted without the score threshold
formatted_results_unfiltered(hits, score_threshold) ==
  [i \in DOMAIN hits |->
     [text |-> hits[i].doc.text, metadata |-> hits[i].doc.metadata,
      score |-> 100 - hits[i].distance]]

RECURSIVE formatted_results(_, _)
formatted_results(hits, score_threshold) ==
  IF hits = << >> THEN << >>
  ELSE LET hit == hits[Len(hits)]
           similarity_score == 100 - hit.distance
           before == formatted_results(SubSeq(hits, 1, Len(hits) - 1), score_threshold)
       IN IF similarity_score >= score_threshold
          THEN Append(before, [text |-> hit.doc.text, metadata |-> hit.doc.metadata,
                               score |-> similarity_score])
          ELSE before

\* VectorStore.search: the query raises, or its hits are filtered by the threshold
VectorStoreSearch(score_threshold) ==
  {[raises |-> TRUE, results |-> << >>]}
  \cup {[raises |-> FALSE, results |-> formatted_results(hits, score_threshold)] :
          hits \in QueryResults}

----------------------------------------------------------------------------
(* WebSearchAgent *)

trusted_domains ==
  {
    <<"k","h","a","n","a","c","a","d","e","m","y",".","o","r","g">>,
    <<"m","a","t","h","w","o","r","l","d",".","w","o","l","f","r","a","m",".","c","o","m">>,
    <<"w","i","k","i","p","e","d","i","a",".","o","r","g">>,
    <<"b","r","i","l","l","i","a","n","t",".","o","r","g">>,
    <<"m","a","t","h","i","s","f","u","n",".","c","o","m">>,
    <<"s","t","a","c","k","o","v","e","r","f","l","o","w",".","c","o","m","/","q","u","e","s","t","i","o","n","s","/","t","a","g","g","e","d","/","m","a","t","h">>,
    <<"m","a","t","h",".","s","t","a","c","k","e","x","c","h","a","n","g","e",".","c","o","m">>,
    <<"c","o","u","r","s","e","r","a",".","o","r","g">>, <<"m","i","t",".","e","d","u">>,
    <<"s","t","a","n","f","o","r","d",".","e","d","u">>
  }

edu_keywords ==
  {
    <<"t","u","t","o","r","i","a","l">>, <<"e","x","p","l","a","n","a","t","i","o","n">>,
    <<"l","e","a","r","n">>, <<"g","u","i","d","e">>, <<"h","o","w"," ","t","o">>,
    <<"s","t","e","p"," ","b","y"," ","s","t","e","p">>
  }

filter_math_keywords ==
  {
    <<"f","o","r","m","u","l","a">>, <<"e","q","u","a","t","i","o","n">>,
    <<"t","h","e","o","r","e","m">>, <<"p","r","o","o","f">>, <<"s","o","l","u","t","i","o","n">>,
    <<"c","a","l","c","u","l","a","t","e">>
  }

\* search_math_content asks DDGS for max_results=3
max_results == 3

\* search_math_content enriches the top 2 filtered results
TopResults == 2

\* pages DDGS may return (href, title, body) and what _extract_content
\* reads from each when the fetch succeeds
WebPages ==
  <<[href |-> <<"m","i","t",".","e","d","u","/","p","i">>,
    title |-> <<"p","i">>,
    body |-> <<"l","e","a","r","n"," ","p","i">>,
    content |-> <<"p","i"," ","i","s"," ","a"," ","r","a","t","i","o">>],
   [href |-> <<"r","e","d","d","i","t",".","c","o","m","/","y">>,
    title |-> <<"w","h","y"," ","y">>,
    body |-> <<"s","o","l","v","e"," ","y">>,
    content |-> <<"y"," ","i","s"," ","a"," ","f","o","r","u","m">>],
   [href |-> <<"c","a","t","s",".","o","r","g">>,
    title |-> <<"c","a","t","s">>,
    body |-> <<"h","e","l","l","o">>,
    content |-> <<"h","e","l","l","o"," ","c","a","t","s">>]>>

PageSet == Range(WebPages)

\* what DDGS.text returns: it raises, or lists at most max_results distinct
\* pages; fetched are the pages _extract_content can read
SearchOutcomes ==
  {[raises |-> TRUE, raw |-> << >>, fetched |-> {}]}
  \cup {[raises |-> FALSE, raw |-> raw, fetched |-> fetched] :
          raw \in {s \in UNION {[1..n -> PageSet] : n \in 0..max_results} :
                     \A i, j \in DOMAIN s : i < j => s[i] # s[j]},
          fetched \in SUBSET PageSet}

is_trusted_domain(url) ==
  \E domain \in trusted_domains : Contains(Lower(url), domain)

filter_score(result) ==
  LET url == Lower(result.href)
      title == Lower(result.title)
      body == Lower(result.body)
  IN (IF is_trusted_domain(url) THEN 10 ELSE 0)
     + 2 * Cardinality({k \in edu_keywords : Contains(title, k) \/ Contains(body, k)})
     + Cardinality({k \in filter_math_keywords : Contains(title, k) \/ Contains(body, k)})
     - (IF Contains(url, <<"f","o","r","u","m">>) \/ Contains(url, <<"r","e","d","d","i","t">>)
        THEN 5 ELSE 0)

\* list.sort(reverse=True, key=score): stable, highest score first
RECURSIVE filter_results(_)
filter_results(results) ==
  IF results = << >> THEN << >>
  ELSE LET last == results[Len(results)]
           sorted == filter_results(SubSeq(results, 1, Len(results) - 1))
           ahead == Cardinality({i \in DOMAIN sorted :
                                   filter_score(sorted[i]) >= filter_score(last)})
       IN SubSeq(sorted, 1, ahead) \o <<last>> \o SubSeq(sorted, ahead + 1, Len(sorted))

RECURSIVE enriched_results(_, _)
enriched_results(top, fetched) ==
  IF top = << >> THEN << >>
  ELSE LET result == top[Len(top)]
           before == enriched_results(SubSeq(top, 1, Len(top) - 1), fetched)
       IN IF result \in fetched
          THEN Append(before, [title |-> result.title, url |-> result.href,
                               snippet |-> result.body, content |-> result.content,
                               is_trusted |-> is_trusted_domain(result.href)])
          ELSE before

search_math_content(outcome) ==
  IF outcome.raises
  THEN [success |-> FALSE, results |-> << >>, message |-> "Search error", source |-> "web_search"]
  ELSE IF outcome.raw = << >>
  THEN [success |-> FALSE, results |-> << >>, message |-> "No search results found",
        source |-> "web_search"]
  ELSE LET filtered == filter_results(outcome.raw)
       IN [success |-> TRUE,
           results |-> enriched_results(SubSeq(filtered, 1, Min(TopResults, Len(filtered))),
                                        outcome.fetched),
           total_found |-> Len(outcome.raw),
           message |-> "Found relevant sources", source |-> "web_search"]

\* the validator accepting any results
validate_answer_exists_any_result(query, search_results) ==
  search_results # << >>

\* the validator asking for every query term in one result
validate_answer_exists_all_terms(query, search_results) ==
  IF search_results = << >> THEN FALSE
  ELSE LET query_terms == WordTokens(Lower(query))
       IN \E i \in DOMAIN search_results :
            LET result == search_results[i]
                result_text == Lower(result.title \o <<" ">> \o result.snippet
                                     \o <<" ">> \o result.content)
            IN \A term \in query_terms : Contains(result_text, term)

validate_answer_exists(query, search_results) ==
  IF search_results = << >> THEN FALSE
  ELSE LET query_terms == WordTokens(Lower(query))
       IN \E i \in DOMAIN search_results :
            LET result == search_results[i]
                result_text == Lower(result.title \o <<" ">> \o result.snippet
                                     \o <<" ">> \o result.content)
                matches == Cardinality({term \in query_terms : Contains(result_text, term)})
            IN 2 * matches >= Cardinality(query_terms)

\* the context string: one block per result with its trust badge, title, URL and content
format_search_context(search_results) ==
  [i \in DOMAIN search_results |->
     [block |-> "Source", number |-> i, trusted |-> search_results[i].is_trusted,
      title |-> search_results[i].title, url |-> search_results[i].url,
      content |-> search_results[i].content]]

----------------------------------------------------------------------------
(* GroqClient.generate_response *)

ErrorPrefix ==
  <<"E","r","r","o","r"," ","g","e","n","e","r","a","t","i","n","g"," ","r","e","s","p","o","n","s","e"," ","f","r","o","m"," ","L","L","M",":"," ">>

ErrorText ==
  <<"t","i","m","e","o","u","t">>

AnswerCores ==
  {
    <<"k","i","l","l">>,
    <<"f","i","r","s","t"," ","s","o","l","v","e"," ","i","t",","," ","t","h","u","s"," ","x"," ","="," ","4">>,
    <<"y","o","u"," ","c","o","u","l","d"," ","k","i","l","l"," ","t","h","e"," ","v","a","r","i","a","b","l","e">>,
    <<"t","h","e"," ","a","n","s","w","e","r"," ","i","s"," ","x"," ","="," ","4">>
  }

\* what the chat completion does: it raises, or returns a message content
Completions ==
  {[raises |-> TRUE, content |-> << >>]}
  \cup {[raises |-> FALSE, content |-> core \o Blanks(r)] :
          core \in AnswerCores, r \in 0..MaxPad}

\* the try/except of generate_response: an exception becomes the answer text
generate_response(completion) ==
  IF completion.raises THEN ErrorPrefix \o ErrorText ELSE completion.content

----------------------------------------------------------------------------
(* The questions a session asks *)

Phrases ==
  {
    <<"k","i","l","l">>, <<"B","o","m","b">>, <<"s","k","i","l","l","s">>,
    <<"w","h","y"," ","k","i","l","l">>, <<"y">>, <<"c","a","t","s">>, <<"p","i">>,
    <<"w","h","y">>, <<"s","o","l","v","e">>, <<"h","e","l","l","o">>, <<"2","+","2">>,
    <<"s","o","l","v","e"," ","p","i">>
  }

\* a phrase with at most MaxPad blanks around it
Questions ==
  {Blanks(pad[1]) \o p \o Blanks(pad[2]) :
     pad \in {x \in (0..MaxPad) \X (0..MaxPad) : x[1] + x[2] <= MaxPad}, p \in Phrases}

----------------------------------------------------------------------------
(* EnhancedRAGOrchestrator *)

VARIABLES
  pc,        \* where the session is in answer_question
  question,  \* the question of the call in flight or last made
  loc,       \* the local variables of the call in flight
  trace,     \* the collaborator calls the call in flight has made, in order
  result,    \* the record the call returned, None while it runs or when it raised
  history,   \* what the completed calls of the session returned
  config,    \* the configuration fields of the orchestrator
  memo,      \* what the collaborators have answered: a collaborator answers
             \* the same arguments the same way for an unchanged index
  store,     \* the tables of the feedback database
  session,   \* st.session_state of the chat page: chat_history, pending_feedback
  writers    \* the record_feedback calls of other sessions on the same database

vars == <<pc, question, loc, trace, result, history, config, memo, store, session,
          writers>>

\* __init__: min_confidence_score = 0.5
InitMinConfidence == 50

\* __init__: web_search_threshold = 0.4
InitWebThreshold == 40

\* answer_question: relevance gate, confidence < 0.3
RelevanceGate == 300

SafetySuffix ==
  <<" ","[","P","l","e","a","s","e"," ","p","r","o","v","i","d","e"," ","a"," ","s","a","f","e",","," ","e","d","u","c","a","t","i","o","n","a","l"," ","r","e","s","p","o","n","s","e","]">>

MathFilterMessage ==
  "I'm a mathematics education assistant. Please ask a math-related question, and I'll be happy to help!"

NoLocals ==
  [input_validation |-> None, is_math |-> FALSE, confidence |-> 0,
   kb_results |-> << >>, has_kb_context |-> FALSE, best_kb_score |-> 0,
   web_results |-> None, web_context |-> None,
   final_context |-> None, sources |-> << >>, source_type |-> "",
   answer |-> << >>, output_validation |-> None, generation_failed |-> FALSE]

NoMemo == [sentiment |-> None, kb |-> None, web |-> None, gen |-> {}]

\* the other sessions that rate answers; each has its own FeedbackSystem on
\* the same database file
Writers == {"w1", "w2"}

\* no record_feedback call of another session is in flight
NoWriters == [w \in Writers |-> [pc |-> "ready", calls |-> 0]]

\* initialize_session_state: an empty chat and no pending feedback
NewSession ==
  [chat_history |-> << >>, pending_feedback |-> {}, questions |-> 0, refinements |-> 0]

\* _initialize_database: CREATE TABLE IF NOT EXISTS on a new database file
EmptyStore == [feedback |-> << >>, refinements |-> << >>, response_analytics |-> << >>]

Init ==
  /\ pc = "idle"
  /\ question = << >>
  /\ loc = NoLocals
  /\ trace = << >>
  /\ result = None
  /\ history = << >>
  /\ config = [min_confidence_score |-> InitMinConfidence,
               enable_web_search |-> TRUE,
               web_search_threshold |-> InitWebThreshold]
  /\ memo = NoMemo
  /\ store = EmptyStore
  /\ session = NewSession
  /\ writers = NoWriters

\* return <record>
Return(record) ==
  /\ pc' = "returned"
  /\ result' = Some(record)
  /\ history' = Append(history, record)

\* an exception leaves answer_question
Raise ==
  /\ pc' = "raised"
  /\ result' = None
  /\ history' = Append(history, [raised |-> TRUE])

\* the session calls answer_question
Ask(q) ==
  /\ pc = "idle"
  /\ pc' = "input_guard"
  /\ question' = q
  /\ loc' = NoLocals
  /\ trace' = << >>
  /\ result' = None
  /\ UNCHANGED <<history, config, memo, store, session, writers>>

\* the session calls answer_question again with the same question
AskAgain ==
  /\ pc \in {"returned", "raised"}
  /\ Len(history) < MaxCalls
  /\ pc' = "input_guard"
  /\ loc' = NoLocals
  /\ trace' = << >>
  /\ result' = None
  /\ UNCHANGED <<question, history, config, memo, store, session, writers>>

\* validate_input reaches the TextBlob call
sentiment_checked(user_input) ==
  /\ ~HasForbidden(Lower(user_input))
  /\ Len(Strip(user_input)) >= MinInputLen

\* the input guard stopping every invalid input
InputBlockedAnyInvalid(input_validation) ==
  ~input_validation.is_valid

InputBlocked(input_validation) ==
  ~input_validation.is_valid /\ input_validation.severity = "high"

BlockedRecord(input_validation) ==
  [answer |-> input_validation.message, source |-> "Guardrails Blocked",
   validation |-> input_validation, success |-> FALSE]

\* the input guard with the index queried before the verdict is looked at
InputGuardAfterPrefetch ==
  /\ pc = "input_guard"
  /\ \E sentiment \in (IF ~sentiment_checked(question)
                       THEN {[raises |-> TRUE, polarity |-> 0]}
                       ELSE IF memo.sentiment # None THEN {memo.sentiment[1]}
                       ELSE Sentiments) :
       LET input_validation == validate_input(question, sentiment)
       IN /\ loc' = [loc EXCEPT !.input_validation = input_validation]
          /\ memo' = IF sentiment_checked(question)
                     THEN [memo EXCEPT !.sentiment = Some(sentiment)] ELSE memo
          /\ trace' = trace \o <<"validate_input", "search">>
          /\ IF InputBlocked(input_validation)
             THEN Return(BlockedRecord(input_validation))
             ELSE pc' = "math_gate" /\ UNCHANGED <<result, history>>
  /\ UNCHANGED <<question, config, store, session, writers>>

\* STEP 1: input guardrails
InputGuard ==
  /\ pc = "input_guard"
  /\ \E sentiment \in (IF ~sentiment_checked(question)
                       THEN {[raises |-> TRUE, polarity |-> 0]}
                       ELSE IF memo.sentiment # None THEN {memo.sentiment[1]}
                       ELSE Sentiments) :
       LET input_validation == validate_input(question, sentiment)
       IN /\ loc' = [loc EXCEPT !.input_validation = input_validation]
          /\ memo' = IF sentiment_checked(question)
                     THEN [memo EXCEPT !.sentiment = Some(sentiment)] ELSE memo
          /\ trace' = Append(trace, "validate_input")
          /\ IF InputBlocked(input_validation)
             THEN Return(BlockedRecord(input_validation))
             ELSE pc' = "math_gate" /\ UNCHANGED <<result, history>>
  /\ UNCHANGED <<question, config, store, session, writers>>

\* the relevance gate with <= in place of <
MathGateBlocksAtThreshold(is_math, confidence) ==
  ~is_math /\ confidence <= RelevanceGate

MathGateBlocks(is_math, confidence) ==
  ~is_math /\ confidence < RelevanceGate

MathFilterRecord(input_validation, confidence) ==
  [answer |-> MathFilterMessage, source |-> "Math Filter",
   validation |-> input_validation, success |-> FALSE, math_confidence |-> confidence]

\* the math relevance check
MathGate ==
  /\ pc = "math_gate"
  /\ LET m == is_math_related(question)
     IN /\ loc' = [loc EXCEPT !.is_math = m.is_math, !.confidence = m.confidence]
        /\ trace' = Append(trace, "is_math_related")
        /\ IF MathGateBlocks(m.is_math, m.confidence)
           THEN Return(MathFilterRecord(loc.input_validation, m.confidence))
           ELSE pc' = "kb_search" /\ UNCHANGED <<result, history>>
  /\ UNCHANGED <<question, config, memo, store, session, writers>>

\* STEP 2: the search call and the two assignments after it; an exception
\* of the search leaves answer_question
SearchStep(outcomes) ==
  /\ pc = "kb_search"
  /\ \E outcome \in (IF memo.kb # None THEN {memo.kb[1]} ELSE outcomes) :
       /\ memo' = [memo EXCEPT !.kb = Some(outcome)]
       /\ trace' = Append(trace, "search")
       /\ IF outcome.raises
          THEN Raise /\ UNCHANGED loc
          ELSE /\ loc' = [loc EXCEPT
                            !.kb_results = outcome.results,
                            !.has_kb_context = Len(outcome.results) > 0,
                            !.best_kb_score = IF outcome.results # << >>
                                              THEN outcome.results[1].score ELSE 0]
               /\ pc' = "web_search"
               /\ UNCHANGED <<result, history>>
  /\ UNCHANGED <<question, config, store, session, writers>>

KBSearch == SearchStep(VectorStoreSearch(config.min_confidence_score))

\* STEP 2 with a retriever that applies no score threshold
KBSearchUnfiltered == SearchStep(VectorStoreSearch(0))

\* the web fallback condition with <= in place of <
WebSearchAtThreshold(cfg, has_kb_context, best_kb_score) ==
  cfg.enable_web_search
  /\ (~has_kb_context \/ best_kb_score <= cfg.web_search_threshold)

\* STEP 3: the web fallback condition
WebSearchTriggered(cfg, has_kb_context, best_kb_score) ==
  cfg.enable_web_search
  /\ (~has_kb_context \/ best_kb_score < cfg.web_search_threshold)

\* the web search raced against the retriever: it starts before the search returns
WebSearchBeforeRetrieval ==
  /\ pc = "kb_search"
  /\ \A i \in DOMAIN trace : trace[i] # "search_math_content"
  /\ trace' = Append(trace, "search_math_content")
  /\ UNCHANGED <<pc, question, loc, result, history, config, memo, store, session, writers>>

\* STEP 3: the web search and the validation of its results
WebSearch ==
  /\ pc = "web_search"
  /\ WebSearchTriggered(config, loc.has_kb_context, loc.best_kb_score)
  /\ \E web_search_result \in
          (IF memo.web # None THEN {memo.web[1]}
           ELSE {search_math_content(outcome) : outcome \in SearchOutcomes}) :
       /\ memo' = [memo EXCEPT !.web = Some(web_search_result)]
       /\ IF web_search_result.success /\ web_search_result.results # << >>
          THEN /\ trace' = trace \o <<"search_math_content", "validate_answer_exists">>
               /\ IF validate_answer_exists(question, web_search_result.results)
                  THEN loc' = [loc EXCEPT
                                 !.web_results = Some(web_search_result.results),
                                 !.web_context =
                                    Some(format_search_context(web_search_result.results))]
                  ELSE loc' = [loc EXCEPT !.web_results = None]
          ELSE /\ trace' = Append(trace, "search_math_content")
               /\ UNCHANGED loc
  /\ pc' = "context"
  /\ UNCHANGED <<question, result, history, config, store, session, writers>>

\* STEP 3 skipped: the condition is false
SkipWebSearch ==
  /\ pc = "web_search"
  /\ ~WebSearchTriggered(config, loc.has_kb_context, loc.best_kb_score)
  /\ pc' = "context"
  /\ UNCHANGED <<question, loc, trace, result, history, config, memo, store, session, writers>>

\* the truth value of an Optional sequence
Truthy(optional) == optional # None /\ optional[1] # << >>

\* the sources cited by the earlier answers of the session
CitedBefore ==
  UNION {Range(history[i].sources) :
           i \in {j \in DOMAIN history : "sources" \in DOMAIN history[j]}}

\* the dedup test against every source the session ever cited
AlreadyCitedEver(sources, source) ==
  source \in Range(sources) \cup CitedBefore

\* if source not in sources
AlreadyCited(sources, source) ==
  source \in Range(sources)

RECURSIVE kb_sources(_)
kb_sources(kb_results) ==
  IF kb_results = << >> THEN << >>
  ELSE LET before == kb_sources(SubSeq(kb_results, 1, Len(kb_results) - 1))
           source == kb_results[Len(kb_results)].metadata.source
       IN IF AlreadyCited(before, source) THEN before ELSE Append(before, source)

\* the context string built from the passages: one labelled, scored block each
kb_context(kb_results) ==
  [i \in DOMAIN kb_results |->
     [block |-> "PDF Source", number |-> i, source |-> kb_results[i].metadata.source,
      relevance |-> kb_results[i].score, text |-> kb_results[i].text]]

\* the context choice with the web results tried first
SourceTierWebFirst(has_kb_context, web_context) ==
  IF Truthy(web_context) THEN "Web Search"
  ELSE IF has_kb_context THEN "Knowledge Base (PDF)"
  ELSE "LLM General Knowledge"

\* the context choice without the web tier
SourceTierNoWeb(has_kb_context, web_context) ==
  IF has_kb_context THEN "Knowledge Base (PDF)"
  ELSE "LLM General Knowledge"

\* STEP 4: if has_kb_context ... elif web_context ...
SourceTier(has_kb_context, web_context) ==
  IF has_kb_context THEN "Knowledge Base (PDF)"
  ELSE IF Truthy(web_context) THEN "Web Search"
  ELSE "LLM General Knowledge"

\* STEP 4: prepare the context
PrepareContext ==
  /\ pc = "context"
  /\ LET source_type == SourceTier(loc.has_kb_context, loc.web_context)
     IN loc' = [loc EXCEPT
                  !.source_type = source_type,
                  !.final_context =
                     IF source_type = "Knowledge Base (PDF)"
                     THEN Some(kb_context(loc.kb_results))
                     ELSE IF source_type = "Web Search" THEN loc.web_context
                     ELSE None,
                  !.sources =
                     IF source_type = "Knowledge Base (PDF)" THEN kb_sources(loc.kb_results)
                     ELSE IF source_type = "Web Search"
                     THEN [i \in 1..Min(TopResults, Len(loc.web_results[1])) |->
                             loc.web_results[1][i].url]
                     ELSE << >>]
  /\ pc' = "generate"
  /\ UNCHANGED <<question, trace, result, history, config, memo, store, session, writers>>

\* the completions the provider may return for a prompt and context
CompletionsFor(prompt, context) ==
  LET known == {e \in memo.gen : e.prompt = prompt /\ e.context = context}
  IN IF known # {} THEN {e.completion : e \in known} ELSE Completions

Remember(prompt, context, completion) ==
  [memo EXCEPT !.gen = @ \cup {[prompt |-> prompt, context |-> context,
                                completion |-> completion]}]

\* STEP 5: generate the response
Generate ==
  /\ pc = "generate"
  /\ \E completion \in CompletionsFor(question, loc.final_context) :
       /\ loc' = [loc EXCEPT !.answer = generate_response(completion),
                             !.generation_failed = completion.raises]
       /\ memo' = Remember(question, loc.final_context, completion)
  /\ trace' = Append(trace, "generate_response")
  /\ pc' = "output_guard"
  /\ UNCHANGED <<question, result, history, config, store, session, writers>>

\* the regeneration triggered by every invalid output
OutputRejectedAnyInvalid(output_validation) ==
  ~output_validation.is_valid

\* if not output_validation['is_valid'] and output_validation['severity'] == 'high'
OutputRejected(output_validation) ==
  ~output_validation.is_valid /\ output_validation.severity = "high"

\* STEP 6: output guardrails on the first answer
OutputGuard ==
  /\ pc = "output_guard"
  /\ LET output_validation == validate_output(loc.answer)
     IN /\ loc' = [loc EXCEPT !.output_validation = output_validation]
        /\ pc' = IF OutputRejected(output_validation) THEN "regenerate" ELSE "respond"
  /\ trace' = Append(trace, "validate_output")
  /\ UNCHANGED <<question, result, history, config, memo, store, session, writers>>

\* the regeneration repeated while the output is rejected
AfterRegenerationRetry(output_validation) ==
  IF OutputRejected(output_validation) THEN "regenerate" ELSE "respond"

\* after the regeneration the record is prepared, whatever the second verdict
AfterRegeneration(output_validation) ==
  "respond"

\* the regeneration that keeps the verdict of the first answer
RegenerateKeepsFirstVerdict ==
  /\ pc = "regenerate"
  /\ \E completion \in CompletionsFor(question \o SafetySuffix, loc.final_context) :
       /\ loc' = [loc EXCEPT !.answer = generate_response(completion),
                             !.generation_failed = @ \/ completion.raises]
       /\ memo' = Remember(question \o SafetySuffix, loc.final_context, completion)
  /\ pc' = "respond"
  /\ trace' = trace \o <<"generate_response", "validate_output">>
  /\ UNCHANGED <<question, result, history, config, store, session, writers>>

\* STEP 6: the regeneration with the appended safety instruction, and the
\* validation of the regenerated answer
Regenerate ==
  /\ pc = "regenerate"
  /\ \E completion \in CompletionsFor(question \o SafetySuffix, loc.final_context) :
       LET answer == generate_response(completion)
           output_validation == validate_output(answer)
       IN /\ loc' = [loc EXCEPT !.answer = answer,
                                !.output_validation = output_validation,
                                !.generation_failed = @ \/ completion.raises]
          /\ memo' = Remember(question \o SafetySuffix, loc.final_context, completion)
          /\ pc' = AfterRegeneration(output_validation)
  /\ trace' = trace \o <<"generate_response", "validate_output">>
  /\ UNCHANGED <<question, result, history, config, store, session, writers>>

\* the record with used_web telling that the web search was attempted
ResponseWebAttempted ==
  [answer |-> loc.answer, source |-> loc.source_type, sources |-> loc.sources,
   used_kb |-> loc.has_kb_context,
   used_web |-> \E i \in DOMAIN trace : trace[i] = "search_math_content",
   kb_confidence |-> loc.best_kb_score, math_relevance |-> loc.confidence,
   input_validation |-> loc.input_validation,
   output_validation |-> loc.output_validation,
   success |-> TRUE, session_id |-> "session"]

Response ==
  [answer |-> loc.answer, source |-> loc.source_type, sources |-> loc.sources,
   used_kb |-> loc.has_kb_context, used_web |-> loc.web_results # None,
   kb_confidence |-> loc.best_kb_score, math_relevance |-> loc.confidence,
   input_validation |-> loc.input_validation,
   output_validation |-> loc.output_validation,
   success |-> TRUE, session_id |-> "session"]

\* the answer is returned and the retrieval threshold is lowered for the
\* calls that follow
RespondAndTune ==
  /\ pc = "respond"
  /\ Return(Response)
  /\ config' = [config EXCEPT !.min_confidence_score = InitWebThreshold]
  /\ UNCHANGED <<question, loc, trace, memo, store, session, writers>>

\* STEP 7: prepare and return the response
Respond ==
  /\ pc = "respond"
  /\ Return(Response)
  /\ UNCHANGED <<question, loc, trace, config, memo, store, session, writers>>

Next ==
  \/ \E q \in Questions : Ask(q)
  \/ InputGuard
  \/ MathGate
  \/ KBSearch
  \/ WebSearch
  \/ SkipWebSearch
  \/ PrepareContext
  \/ Generate
  \/ OutputGuard
  \/ Regenerate
  \/ Respond

Spec == Init /\ [][Next]_vars

\* a session that repeats its question
NextRepeat ==
  \/ Next
  \/ AskAgain

SpecRepeat == Init /\ [][NextRepeat]_vars

\* the orchestrator over a retriever that returns passages of any score
NextUnfiltered ==
  \/ \E q \in Questions : Ask(q)
  \/ InputGuard
  \/ MathGate
  \/ KBSearchUnfiltered
  \/ WebSearch
  \/ SkipWebSearch
  \/ PrepareContext
  \/ Generate
  \/ OutputGuard
  \/ Regenerate
  \/ Respond

SpecUnfiltered == Init /\ [][NextUnfiltered]_vars

----------------------------------------------------------------------------
(* FeedbackSystem and EnhancedRAGOrchestrator.refine_response *)

\* rows record_feedback puts in the feedback table
MaxFeedback == 1

\* the questions of the session that rates and refines its answers
SessionQuestions ==
  {<<"s","o","l","v","e"," ","p","i">>, <<"y">>}

\* the answer shown to the user who rates it or asks for its refinement
ShownAnswers ==
  {<<"t","h","e"," ","a","n","s","w","e","r"," ","i","s"," ","x"," ","="," ","4">>}

\* the sources of the rated answers
RatedSources == {"Knowledge Base (PDF)", "LLM General Knowledge"}

\* rating: Optional[int], 1 to 5
Ratings == {None, Some(2), Some(3), Some(4)}

\* the text of a refinement request
RefinementRequests == {"add an example"}

\* what a statement on the sqlite connection does: it is committed, or it raises
StoreOutcomes == {"committed", "raises"}

\* cursor.fetchone(): the first row of the source
first_row(rows) == CHOOSE i \in rows : \A j \in rows : i <= j

\* _update_analytics; the REAL avg_rating is kept as the fraction num/den
update_analytics(response_analytics, source, rating) ==
  IF rating = None THEN response_analytics
  ELSE LET r == rating[1]
           found == {i \in DOMAIN response_analytics :
                       response_analytics[i].question_type = source}
       IN IF found # {}
          THEN LET aid == first_row(found)
                   row == response_analytics[aid]
                   new_total == row.total_responses + 1
               IN [response_analytics EXCEPT ![aid] =
                     [question_type |-> source,
                      avg_rating |-> [num |-> row.avg_rating.num * row.total_responses
                                                + r * row.avg_rating.den,
                                      den |-> row.avg_rating.den * new_total],
                      total_responses |-> new_total,
                      positive_feedback |-> row.positive_feedback + (IF r >= 4 THEN 1 ELSE 0),
                      negative_feedback |-> row.negative_feedback + (IF r <= 2 THEN 1 ELSE 0)]]
          ELSE Append(response_analytics,
                      [question_type |-> source,
                       avg_rating |-> [num |-> r, den |-> 1],
                       total_responses |-> 1,
                       positive_feedback |-> IF r >= 4 THEN 1 ELSE 0,
                       negative_feedback |-> IF r <= 2 THEN 1 ELSE 0])

\* the INSERT INTO feedback of record_feedback; lastrowid is the new row's id
feedback_row(feedback, q, response, source, rating) ==
  [id |-> Len(feedback) + 1, question |-> q, response |-> response,
   source |-> source, rating |-> rating, is_refined |-> FALSE]

\* record_feedback: the row is inserted and committed, then the analytics
\* are updated in a second connection; either statement may raise
RecordFeedback ==
  /\ pc = "idle"
  /\ Len(store.feedback) < MaxFeedback
  /\ \E q \in SessionQuestions, response \in ShownAnswers, source \in RatedSources,
        rating \in Ratings, inserted \in StoreOutcomes, updated \in StoreOutcomes :
       LET feedback == Append(store.feedback,
                              feedback_row(store.feedback, q, response, source, rating))
       IN store' = IF inserted = "raises" THEN store
                   ELSE IF updated = "raises"
                   THEN [store EXCEPT !.feedback = feedback]
                   ELSE [store EXCEPT
                           !.feedback = feedback,
                           !.response_analytics =
                              update_analytics(store.response_analytics, source, rating)]
  /\ UNCHANGED <<pc, question, loc, trace, result, history, config, memo, session, writers>>

\* the refinement prompt: the template filled with the three texts
refinement_prompt(original_question, original_response, user_feedback) ==
  [template |-> "refinement", original_question |-> original_question,
   original_response |-> original_response, user_feedback |-> user_feedback]

\* the ids of the feedback rows
FeedbackIds == {store.feedback[i].id : i \in DOMAIN store.feedback}

\* the session calls refine_response for a shown answer, with the id of a
\* recorded feedback or without one
CallRefine ==
  /\ pc = "idle"
  /\ \E original_question \in SessionQuestions, original_response \in ShownAnswers,
        user_feedback \in RefinementRequests,
        feedback_id \in {None} \cup {Some(id) : id \in FeedbackIds} :
       /\ question' = original_question
       /\ loc' = [original_question |-> original_question,
                  original_response |-> original_response,
                  user_feedback |-> user_feedback,
                  feedback_id |-> feedback_id,
                  refined_answer |-> << >>,
                  validation |-> None,
                  generation_failed |-> FALSE]
  /\ pc' = "refine_generate"
  /\ trace' = << >>
  /\ result' = None
  /\ UNCHANGED <<history, config, memo, store, session, writers>>

\* refined_answer = self.llm_client.generate_response(refinement_prompt, None)
RefineGenerate ==
  /\ pc = "refine_generate"
  /\ LET prompt == refinement_prompt(loc.original_question, loc.original_response,
                                     loc.user_feedback)
     IN \E completion \in CompletionsFor(prompt, None) :
          /\ loc' = [loc EXCEPT !.refined_answer = generate_response(completion),
                                !.generation_failed = completion.raises]
          /\ memo' = Remember(prompt, None, completion)
  /\ trace' = Append(trace, "generate_response")
  /\ pc' = "refine_validate"
  /\ UNCHANGED <<question, result, history, config, store, session, writers>>

\* the store is written for every call, with or without a feedback id
StoreRequestedAlways(feedback_id) ==
  TRUE

\* if feedback_id: None and 0 are false
StoreRequested(feedback_id) ==
  feedback_id # None /\ feedback_id[1] # 0

\* validation = self.guardrails.validate_output(refined_answer)
RefineValidate ==
  /\ pc = "refine_validate"
  /\ loc' = [loc EXCEPT !.validation = Some(validate_output(loc.refined_answer))]
  /\ trace' = Append(trace, "validate_output")
  /\ pc' = IF StoreRequested(loc.feedback_id) THEN "refine_store" ELSE "refine_return"
  /\ UNCHANGED <<question, result, history, config, memo, store, session, writers>>

\* the INSERT INTO refinements of store_refined_response
refinement_row(refinements, feedback_id, refined_response, refinement_reason) ==
  [id |-> Len(refinements) + 1, original_feedback_id |-> feedback_id,
   refined_response |-> refined_response, refinement_reason |-> refinement_reason]

\* store_refined_response: the row is inserted and committed, or the
\* connection raises and the exception leaves refine_response
RefineStore ==
  /\ pc = "refine_store"
  /\ trace' = Append(trace, "store_refined_response")
  /\ \E outcome \in StoreOutcomes :
       IF outcome = "raises"
       THEN Raise /\ UNCHANGED store
       ELSE /\ store' = [store EXCEPT !.refinements =
                           Append(@, refinement_row(@, loc.feedback_id, loc.refined_answer,
                                                    loc.user_feedback))]
            /\ pc' = "refine_return"
            /\ UNCHANGED <<result, history>>
  /\ UNCHANGED <<question, loc, config, memo, session, writers>>

\* the record whose success follows the output verdict
RefinedIfValid ==
  [refined_answer |-> loc.refined_answer, validation |-> loc.validation[1],
   success |-> loc.validation[1].is_valid]

Refined ==
  [refined_answer |-> loc.refined_answer, validation |-> loc.validation[1],
   success |-> TRUE]

\* return {'refined_answer': ..., 'validation': ..., 'success': True}
RefineReturn ==
  /\ pc = "refine_return"
  /\ Return(Refined)
  /\ UNCHANGED <<question, loc, trace, config, memo, store, session, writers>>

\* a session that rates shown answers and asks for their refinement
NextRefine ==
  \/ RecordFeedback
  \/ CallRefine
  \/ RefineGenerate
  \/ RefineValidate
  \/ RefineStore
  \/ RefineReturn

SpecRefine == Init /\ [][NextRefine]_vars

\* the call in flight runs on: a step that can be taken is taken
SpecRefineFair == SpecRefine /\ WF_vars(NextRefine)

----------------------------------------------------------------------------
(* The chat page (app.py): st.session_state and the handlers of its buttons *)

\* most questions one chat session submits
MaxQuestions == 2

\* most refinements one chat session asks for
MaxRefinements == 1

\* the questions typed into the chat input: the n-th question of the session;
\* the questions after the first are ones the input guard answers itself
ChatQuestions(n) ==
  IF n = 1 THEN {<<"s","o","l","v","e"," ","p","i">>, <<"y">>}
  ELSE {<<"w","h","y"," ","k","i","l","l">>}

\* {'role': 'user', 'content': user_question}
UserMessage(content) ==
  [role |-> "user", content |-> content, source |-> "", is_refined |-> FALSE]

\* {'role': 'assistant', 'content': ..., 'metadata': {'source': ..., ...}};
\* of the metadata the handlers read the source only
AssistantMessage(content, source, is_refined) ==
  [role |-> "assistant", content |-> content, source |-> source,
   is_refined |-> is_refined]

\* the indices of the messages that show the feedback buttons; index i of
\* the sequence is msg_id i - 1 of the list
AssistantIds ==
  {i \in DOMAIN session.chat_history : session.chat_history[i].role = "assistant"}

\* question = chat_history[msg_id - 1]['content'] if msg_id > 0, else ""
QuestionOf(i) ==
  IF i > 1 THEN session.chat_history[i - 1].content ELSE << >>

\* st.session_state.pending_feedback.get(msg_id)
PendingFeedback(i) ==
  IF \E e \in session.pending_feedback : e.msg_id = i
  THEN Some((CHOOSE e \in session.pending_feedback : e.msg_id = i).feedback_id)
  ELSE None

\* the script run is over: the page waits for the next event
RunEnds ==
  /\ pc' = "idle"
  /\ question' = << >>
  /\ loc' = NoLocals
  /\ trace' = << >>
  /\ result' = None
  /\ history' = << >>
  /\ memo' = NoMemo

\* main: the question is appended to the chat and answer_question is called
SubmitQuestion ==
  /\ pc = "idle"
  /\ session.questions < MaxQuestions
  /\ \E q \in ChatQuestions(session.questions + 1) :
       /\ question' = q
       /\ session' = [session EXCEPT !.chat_history = Append(@, UserMessage(q)),
                                     !.questions = @ + 1]
  /\ pc' = "input_guard"
  /\ loc' = NoLocals
  /\ trace' = << >>
  /\ result' = None
  /\ UNCHANGED <<history, config, memo, store, writers>>

\* main: the returned record is appended to the chat as the assistant's message
ShowAnswer ==
  /\ pc = "returned"
  /\ "feedback_id" \notin DOMAIN loc
  /\ session' = [session EXCEPT !.chat_history =
                   Append(@, AssistantMessage(result[1].answer, result[1].source, FALSE))]
  /\ RunEnds
  /\ UNCHANGED <<config, store, writers>>

\* an exception of answer_question or refine_response ends the script run;
\* the session state stays as it is
ShowError ==
  /\ pc = "raised"
  /\ RunEnds
  /\ UNCHANGED <<config, store, session, writers>>

\* the thumbs-up button: handle_feedback(msg_id, rating=5, "positive"); the
\* id is kept under the message index when record_feedback returns
ThumbsUp ==
  /\ pc = "idle"
  /\ Len(store.feedback) < MaxFeedback
  /\ \E i \in AssistantIds, inserted \in StoreOutcomes, updated \in StoreOutcomes :
       LET msg == session.chat_history[i]
           row == feedback_row(store.feedback, QuestionOf(i), msg.content,
                               msg.source, Some(5))
           feedback == Append(store.feedback, row)
       IN IF inserted = "raises"
          THEN UNCHANGED <<store, session>>
          ELSE IF updated = "raises"
          THEN /\ store' = [store EXCEPT !.feedback = feedback]
               /\ UNCHANGED session
          ELSE /\ store' = [store EXCEPT
                              !.feedback = feedback,
                              !.response_analytics =
                                 update_analytics(store.response_analytics,
                                                  msg.source, Some(5))]
               /\ session' = [session EXCEPT !.pending_feedback =
                                {e \in @ : e.msg_id # i}
                                  \cup {[msg_id |-> i, feedback_id |-> row.id]}]
  /\ UNCHANGED <<pc, question, loc, trace, result, history, config, memo, writers>>

\* "Submit Refinement": handle_refinement(msg_id, refinement_input) calls
\* refine_response with the id pending for the message index
SubmitRefinement ==
  /\ pc = "idle"
  /\ session.refinements < MaxRefinements
  /\ \E i \in AssistantIds, user_feedback \in RefinementRequests :
       /\ question' = QuestionOf(i)
       /\ loc' = [original_question |-> QuestionOf(i),
                  original_response |-> session.chat_history[i].content,
                  user_feedback |-> user_feedback,
                  feedback_id |-> PendingFeedback(i),
                  refined_answer |-> << >>,
                  validation |-> None,
                  generation_failed |-> FALSE]
  /\ session' = [session EXCEPT !.refinements = @ + 1]
  /\ pc' = "refine_generate"
  /\ trace' = << >>
  /\ result' = None
  /\ UNCHANGED <<history, config, memo, store, writers>>

\* the refined answer written over the last message of the chat
ShowRefinedInPlace ==
  /\ pc = "returned"
  /\ "feedback_id" \in DOMAIN loc
  /\ session' = [session EXCEPT !.chat_history =
                   [@ EXCEPT ![Len(@)] = AssistantMessage(result[1].refined_answer,
                                                          "Refined Response", TRUE)]]
  /\ RunEnds
  /\ UNCHANGED <<config, store, writers>>

\* handle_refinement: the refined answer is appended as a new message
ShowRefined ==
  /\ pc = "returned"
  /\ "feedback_id" \in DOMAIN loc
  /\ session' = [session EXCEPT !.chat_history =
                   Append(@, AssistantMessage(result[1].refined_answer,
                                              "Refined Response", TRUE))]
  /\ RunEnds
  /\ UNCHANGED <<config, store, writers>>

\* "Clear Chat": st.session_state.chat_history = []
ClearChat ==
  /\ pc = "idle"
  /\ session.chat_history # << >>
  /\ session' = [session EXCEPT !.chat_history = << >>]
  /\ UNCHANGED <<pc, question, loc, trace, result, history, config, memo, store, writers>>

\* one chat session: questions, ratings, refinements and Clear Chat
NextSession ==
  \/ SubmitQuestion
  \/ InputGuard
  \/ MathGate
  \/ KBSearch
  \/ WebSearch
  \/ SkipWebSearch
  \/ PrepareContext
  \/ Generate
  \/ OutputGuard
  \/ Regenerate
  \/ Respond
  \/ ShowAnswer
  \/ ShowError
  \/ ThumbsUp
  \/ SubmitRefinement
  \/ RefineGenerate
  \/ RefineValidate
  \/ RefineStore
  \/ RefineReturn
  \/ ShowRefined
  \/ ClearChat

SpecSession == Init /\ [][NextSession]_vars

----------------------------------------------------------------------------
(* record_feedback calls of several sessions on one database file: every *)
(* statement commits, and the statements of different calls interleave   *)

\* most record_feedback calls of one of the other sessions
MaxRatings == 1

\* the SELECT of _update_analytics: fetchone() of the rows of the source
analytics_select(response_analytics, source) ==
  LET found == {i \in DOMAIN response_analytics :
                  response_analytics[i].question_type = source}
  IN IF found = {} THEN None
     ELSE LET row == response_analytics[first_row(found)]
          IN Some([aid |-> first_row(found), avg_rating |-> row.avg_rating,
                   total_responses |-> row.total_responses,
                   positive_feedback |-> row.positive_feedback,
                   negative_feedback |-> row.negative_feedback])

\* the UPDATE ... WHERE id = aid with the values computed from the fetched
\* row, or the INSERT of the first row of the source
analytics_write(response_analytics, source, r, fetched) ==
  IF fetched # None
  THEN LET row == fetched[1]
           new_total == row.total_responses + 1
       IN [response_analytics EXCEPT ![row.aid] =
             [question_type |-> @.question_type,
              avg_rating |-> [num |-> row.avg_rating.num * row.total_responses
                                        + r * row.avg_rating.den,
                              den |-> row.avg_rating.den * new_total],
              total_responses |-> new_total,
              positive_feedback |-> row.positive_feedback + (IF r >= 4 THEN 1 ELSE 0),
              negative_feedback |-> row.negative_feedback + (IF r <= 2 THEN 1 ELSE 0)]]
  ELSE Append(response_analytics,
              [question_type |-> source,
               avg_rating |-> [num |-> r, den |-> 1],
               total_responses |-> 1,
               positive_feedback |-> IF r >= 4 THEN 1 ELSE 0,
               negative_feedback |-> IF r <= 2 THEN 1 ELSE 0])

\* the call of session w is over
Returns(w) ==
  [writers EXCEPT ![w] = [pc |-> "ready", calls |-> @.calls + 1]]

\* record_feedback of session w: INSERT INTO feedback, commit
InsertFeedback(w) ==
  /\ writers[w].pc = "ready"
  /\ writers[w].calls < MaxRatings
  /\ \E q \in SessionQuestions, response \in ShownAnswers, source \in RatedSources,
        rating \in Ratings :
       /\ store' = [store EXCEPT !.feedback =
                      Append(@, feedback_row(@, q, response, source, rating))]
       /\ writers' = [writers EXCEPT ![w] =
                        [pc |-> "inserted", calls |-> @.calls,
                         source |-> source, rating |-> rating]]
  /\ UNCHANGED <<pc, question, loc, trace, result, history, config, memo, session>>

\* _update_analytics of session w: return if rating is None, else SELECT the
\* analytics row of the source
SelectAnalytics(w) ==
  /\ writers[w].pc = "inserted"
  /\ writers' = IF writers[w].rating = None
                THEN Returns(w)
                ELSE [writers EXCEPT ![w] =
                        [pc |-> "selected", calls |-> @.calls,
                         source |-> @.source, rating |-> @.rating,
                         result |-> analytics_select(store.response_analytics,
                                                     @.source)]]
  /\ UNCHANGED <<pc, question, loc, trace, result, history, config, memo, store, session>>

\* _update_analytics of session w: UPDATE or INSERT, commit
WriteAnalytics(w) ==
  /\ writers[w].pc = "selected"
  /\ store' = [store EXCEPT !.response_analytics =
                 analytics_write(@, writers[w].source, writers[w].rating[1],
                                 writers[w].result)]
  /\ writers' = Returns(w)
  /\ UNCHANGED <<pc, question, loc, trace, result, history, config, memo, session>>

\* sessions that rate answers at the same time
NextFeedback ==
  \E w \in Writers :
    \/ InsertFeedback(w)
    \/ SelectAnalytics(w)
    \/ WriteAnalytics(w)

SpecFeedback == Init /\ [][NextFeedback]_vars

----------------------------------------------------------------------------
(* Properties *)

\* the text contains a denylisted term, case-insensitively
Denylisted(text) ==
  \E keyword \in forbidden_keywords :
    \E i \in 1..Len(text) :
      /\ i + Len(keyword) - 1 <= Len(text)
      /\ \A k \in 1..Len(keyword) : LowerChar(text[i + k - 1]) = keyword[k]

\* the input verdict of the call in flight is known
InputValidated == loc.input_validation # None

\* the output verdict of the call in flight is known
OutputValidated == loc.output_validation # None

\* the call returned a record
Returned == pc = "returned" /\ result # None

\* the call passed both input gates and is past the web fallback decision
FallbackDecided ==
  \/ pc \in {"context", "generate", "output_guard", "regenerate", "respond"}
  \/ Returned /\ result[1].success

Calls(name) == Cardinality({i \in DOMAIN trace : trace[i] = name})

\* C1: every question that contains a denylisted term (case-insensitive
\* substring) gets the input verdict invalid with severity high, and
\* answer_question returns the record with source 'Guardrails Blocked' and
\* success false.
C1_DenylistedInputBlocked ==
  (InputValidated /\ Denylisted(question))
    => /\ ~loc.input_validation.is_valid
       /\ loc.input_validation.severity = "high"
       /\ Returned
       /\ result[1].source = "Guardrails Blocked"
       /\ result[1].success = FALSE

\* a denylisted question shorter than 5 characters was blocked
C1_Witness ==
  /\ Returned
  /\ Denylisted(question)
  /\ Len(Strip(question)) < MinInputLen
  /\ result[1].source = "Guardrails Blocked"

\* C2 as stated: every question whose trimmed length is below 5 gets the
\* reason 'too_short', whatever else it contains.
C2_ShortInputTooShort ==
  (InputValidated /\ Len(Strip(question)) < 5)
    => loc.input_validation.reason = "too_short"

\* C2 amended: every question whose trimmed length is below 5 and that
\* contains no denylisted term gets the reason 'too_short' (invalid, severity
\* low); a short question with a denylisted term is 'inappropriate_content'.
C2_ShortCleanInputTooShort ==
  (InputValidated /\ Len(Strip(question)) < 5)
    => IF Denylisted(question)
       THEN loc.input_validation.reason = "inappropriate_content"
       ELSE /\ loc.input_validation.reason = "too_short"
            /\ loc.input_validation.severity = "low"
            /\ ~loc.input_validation.is_valid

\* a question of 5 characters that trims to fewer was found too short
C2_Witness ==
  /\ InputValidated
  /\ Len(question) >= 5
  /\ Len(Strip(question)) < 5
  /\ loc.input_validation.reason = "too_short"

\* C3: every generated output whose trimmed length is below 20 gets the
\* output verdict invalid, reason 'response_too_short', severity medium,
\* whatever else the output contains.
C3_ShortOutputTooShort ==
  (OutputValidated /\ Len(Strip(loc.answer)) < 20)
    => /\ ~loc.output_validation.is_valid
       /\ loc.output_validation.reason = "response_too_short"
       /\ loc.output_validation.severity = "medium"

\* a short output that contains a denylisted term was found too short
C3_Witness ==
  /\ OutputValidated
  /\ Len(Strip(loc.answer)) < 20
  /\ Denylisted(loc.answer)
  /\ loc.output_validation.reason = "response_too_short"

\* C4: with web search enabled, a call that passes both input gates invokes
\* the web search if and only if the retriever result is empty or the score
\* of its first passage is below 0.4 (0.39 invokes it, 0.40 does not).
C4_WebFallbackIffWeak ==
  (FallbackDecided /\ config.enable_web_search)
    => (Calls("search_math_content") > 0
          <=> (loc.kb_results = << >> \/ loc.kb_results[1].score < 40))

\* a non-empty retriever result with best score 0.39 invoked the web search
C4_Witness ==
  /\ FallbackDecided
  /\ loc.kb_results # << >>
  /\ loc.kb_results[1].score = 39
  /\ Calls("search_math_content") = 1

\* C5: whenever the retriever result is non-empty and validated web results
\* were fetched in the same call, the returned record has source
\* 'Knowledge Base (PDF)', and its context and cited sources come from the
\* passages only.
C5_KnowledgeBaseFirst ==
  (Returned /\ result[1].success /\ loc.kb_results # << >> /\ loc.web_results # None)
    => /\ result[1].source = "Knowledge Base (PDF)"
       /\ Range(result[1].sources)
            = {loc.kb_results[i].metadata.source : i \in DOMAIN loc.kb_results}
       /\ loc.final_context # None
       /\ Len(loc.final_context[1]) = Len(loc.kb_results)
       /\ \A i \in DOMAIN loc.kb_results :
            /\ loc.final_context[1][i].block = "PDF Source"
            /\ loc.final_context[1][i].text = loc.kb_results[i].text

\* a record was returned after passages and validated web results were both found
C5_Witness ==
  /\ Returned
  /\ result[1].success
  /\ loc.kb_results # << >>
  /\ loc.web_results # None
  /\ result[1].used_web

\* C6: in one answer_question call the generator is called at most twice.
C6_AtMostTwoGenerations ==
  Calls("generate_response") <= 2

\* the regenerated output was rejected again and the record was returned
C6_Witness ==
  /\ Returned
  /\ Calls("generate_response") = 2
  /\ ~loc.output_validation.is_valid
  /\ loc.output_validation.severity = "high"

\* the sources a returned record cites
CitedSources(record) ==
  IF "sources" \in DOMAIN record THEN record.sources ELSE << >>

\* C7: two calls with the same question, an unchanged index and collaborators
\* that answer the same arguments the same way return the same source kind
\* and the same cited sources.
C7_RepeatedCallSameSources ==
  \A i, j \in DOMAIN history :
    IF "source" \in DOMAIN history[i]
    THEN /\ "source" \in DOMAIN history[j]
         /\ history[i].source = history[j].source
         /\ CitedSources(history[i]) = CitedSources(history[j])
    ELSE "source" \notin DOMAIN history[j]

\* the question was answered twice from the knowledge base
C7_Witness ==
  /\ Len(history) = 2
  /\ "sources" \in DOMAIN history[2]
  /\ history[2].source = "Knowledge Base (PDF)"
  /\ history[2].sources # << >>

\* C8 as stated: a question rejected as 'too_short' gets a rejection record
\* with success false and no generated answer.
C8_TooShortRejected ==
  (Returned /\ loc.input_validation.reason = "too_short")
    => /\ result[1].success = FALSE
       /\ Calls("generate_response") = 0

\* the relevance gate of the call in flight has been passed or has blocked
GateDecided == pc \notin {"idle", "input_guard", "math_gate"}

\* C8 amended: a question rejected as 'too_short' gets a rejection record
\* (Math Filter, success false, no generated answer) exactly when its math
\* confidence is below 0.3; otherwise (as for "y", confidence 0.3) it goes on
\* to retrieval and generation, and a record returned has success true.
C8_TooShortRejectedIffOffTopic ==
  (GateDecided /\ loc.input_validation.reason = "too_short")
    => IF loc.confidence < 300
       THEN /\ Returned
            /\ result[1].source = "Math Filter"
            /\ result[1].success = FALSE
            /\ Calls("generate_response") = 0
       ELSE Returned => /\ result[1].success = TRUE
                        /\ Calls("generate_response") > 0

\* the question "y" was answered
C8_Witness ==
  /\ Returned
  /\ question = <<"y">>
  /\ loc.input_validation.reason = "too_short"
  /\ result[1].success = TRUE

\* C9: a failure of the retriever does not abort the call; it is handled as
\* an empty result and the pipeline goes on to the web fallback decision.
C9_RetrieverFailureIsEmptyResult ==
  (memo.kb # None /\ memo.kb[1].raises /\ Calls("search") > 0)
    => /\ pc # "raised"
       /\ loc.kb_results = << >>
       /\ ~loc.has_kb_context

\* C10: when the generator call fails, answer_question returns a record
\* with success false.
C10_GenerationFailureReported ==
  (Returned /\ loc.generation_failed)
    => result[1].success = FALSE

\* a call of refine_response is in flight or has ended
Refining == "feedback_id" \in DOMAIN loc

\* the refinements table holds the row of the call in flight
RefinementStored ==
  \E i \in DOMAIN store.refinements :
    /\ store.refinements[i].original_feedback_id = loc.feedback_id
    /\ store.refinements[i].refined_response = loc.refined_answer

\* C11: when refine_response is called with a feedback id and the feedback
\* store fails to persist the refinement, refine_response does not raise: it
\* still returns the refined answer with success true.
C11_PersistenceFailureSwallowed ==
  (Refining /\ Calls("store_refined_response") > 0 /\ ~RefinementStored)
    => /\ pc \in {"refine_return", "returned"}
       /\ Returned => /\ result[1].success = TRUE
                      /\ result[1].refined_answer = loc.refined_answer

\* C12: refine_response called without a feedback id does not raise, returns
\* the refined answer with success true, and no step of the call changes a
\* table of the feedback store.
C12_NoIdNoStoreOperation ==
  /\ []((Refining /\ loc.feedback_id = None)
          => /\ pc # "raised"
             /\ Calls("store_refined_response") = 0
             /\ Returned => /\ result[1].success = TRUE
                            /\ result[1].refined_answer = loc.refined_answer)
  /\ [][(Refining /\ loc.feedback_id = None) => store' = store]_vars

\* a refinement without a feedback id returned while the feedback table has a row
C12_Witness ==
  /\ Refining
  /\ loc.feedback_id = None
  /\ Returned
  /\ result[1].refined_answer # << >>
  /\ store.feedback # << >>

\* the three primary source kinds
PrimarySourceKinds == {"Knowledge Base (PDF)", "Web Search", "LLM General Knowledge"}

\* C13: every returned record that is not a block record ('Guardrails
\* Blocked', 'Math Filter') has one primary source kind: 'Knowledge Base
\* (PDF)' when the retriever result is non-empty, else 'Web Search' when
\* validated web results exist, else 'LLM General Knowledge'.
C13_OnePrimarySourceKind ==
  (Returned /\ result[1].source \notin {"Guardrails Blocked", "Math Filter"})
    => /\ result[1].source \in PrimarySourceKinds
       /\ result[1].source =
            IF loc.kb_results # << >> THEN "Knowledge Base (PDF)"
            ELSE IF loc.web_results # None THEN "Web Search"
            ELSE "LLM General Knowledge"

\* a record of the web tier was returned for an empty retriever result
C13_Witness ==
  /\ Returned
  /\ result[1].source = "Web Search"
  /\ loc.kb_results = << >>
  /\ result[1].used_web

\* at least half of the question's distinct lowercase word tokens occur in
\* the title, snippet and content of one result
HalfOfTermsInOneResult(q, results) ==
  LET terms == WordTokens(Lower(q))
  IN \E i \in DOMAIN results :
       LET text == Lower(results[i].title \o <<" ">> \o results[i].snippet
                         \o <<" ">> \o results[i].content)
       IN 2 * Cardinality({t \in terms : Contains(text, t)}) >= Cardinality(terms)

\* the URLs of the first two results, in the order the web search returned them
FirstTwoUrls(results) ==
  [i \in 1..(IF Len(results) < 2 THEN Len(results) ELSE 2) |-> results[i].url]

\* C14: when the retriever result is empty and the web search returns
\* results that pass the 50%-term-overlap validator, the record has source
\* 'Web Search' and cites the URLs of the first two results in the order the
\* web search returned them: at least one, at most two.
C14_WebSourcesCited ==
  (/\ Returned
   /\ result[1].success
   /\ loc.kb_results = << >>
   /\ Calls("search_math_content") > 0
   /\ memo.web[1].success
   /\ HalfOfTermsInOneResult(question, memo.web[1].results))
    => /\ result[1].source = "Web Search"
       /\ result[1].sources = FirstTwoUrls(memo.web[1].results)
       /\ Len(result[1].sources) \in 1..2

\* two web results were cited for a question of which one result holds half the terms
C14_Witness ==
  /\ Returned
  /\ result[1].source = "Web Search"
  /\ Len(result[1].sources) = 2
  /\ Cardinality(WordTokens(Lower(question))) = 2
  /\ ~validate_answer_exists_all_terms(question, memo.web[1].results)

\* C15: every call of answer_question and of refine_response eventually
\* returns a record, whatever its collaborators return or raise.
C15_EveryCallReturns ==
  (pc \in {"input_guard", "refine_generate"}) ~> (pc = "returned" /\ result # None)

\* the input verdict attached to a returned record
AttachedInputVerdict(record) ==
  IF "input_validation" \in DOMAIN record THEN record.input_validation
  ELSE record.validation

\* C16: an input that validate_input rejects with severity low or medium is
\* not stopped by the input guard: the call goes on to the relevance gate
\* and, past it, to the retriever, and the record returned is not 'Guardrails
\* Blocked' and carries the input verdict unchanged.
C16_OnlyHighSeverityBlocks ==
  (/\ InputValidated
   /\ ~loc.input_validation.is_valid
   /\ loc.input_validation.severity \in {"low", "medium"})
    => /\ pc # "math_gate" => Calls("is_math_related") = 1
       /\ (pc \notin {"math_gate", "kb_search"} /\ loc.confidence >= 300)
            => Calls("search") = 1
       /\ Returned => /\ result[1].source # "Guardrails Blocked"
                      /\ AttachedInputVerdict(result[1]) = loc.input_validation

\* a question rejected for its negative tone was answered
C16_Witness ==
  /\ Returned
  /\ loc.input_validation.reason = "negative_tone"
  /\ loc.input_validation.severity = "medium"
  /\ result[1].success
  /\ result[1].input_validation.reason = "negative_tone"

\* the confidence in thousandths, in exact arithmetic: 0.2 per keyword hit
\* capped at 0.6, plus 0.3 for a numeric or symbol pattern, plus 0.1 for a
\* question or imperative word, capped at 1.0
ExactConfidence(text) ==
  LET text_lower == Lower(text)
      hits == Cardinality({k \in math_keywords : Contains(text_lower, k)})
      keywords == IF 200 * hits > 600 THEN 600 ELSE 200 * hits
      pattern == IF contains_numbers_or_symbols(text) THEN 300 ELSE 0
      word == IF \E w \in question_words : Contains(text_lower, w) THEN 100 ELSE 0
      sum == keywords + pattern + word
  IN IF sum > 1000 THEN 1000 ELSE sum

\* C17: for every input the input guard does not hard-block, the confidence
\* is the stated sum (up to the rounding of the floating-point additions),
\* and answer_question returns the 'Math Filter' record with success false
\* if and only if the confidence is below 0.3 and the is-math flag is false;
\* a confidence of exactly 0.3 passes the gate.
C17_MathFilterIffBelowGate ==
  (GateDecided /\ ~InputBlocked(loc.input_validation))
    => /\ LET exact == ExactConfidence(question)
          IN /\ loc.confidence - exact \in {-1, 0, 1}
             /\ (loc.confidence < 300) <=> (exact < 300)
       /\ (Returned /\ result[1].source = "Math Filter" /\ result[1].success = FALSE)
            <=> (loc.confidence < 300 /\ ~loc.is_math)
       /\ (Returned /\ result[1].source = "Math Filter") => result[1].success = FALSE

\* a question of confidence exactly 0.3 passed the gate and reached the retriever
C17_Witness ==
  /\ pc = "kb_search"
  /\ loc.confidence = 300
  /\ ~loc.is_math
  /\ ExactConfidence(question) = 300

\* the place of a collaborator call in the order of answer_question
StageOf(name) ==
  CASE name = "validate_input" -> 1
    [] name = "is_math_related" -> 2
    [] name = "search" -> 3
    [] name = "search_math_content" -> 4
    [] name = "validate_answer_exists" -> 5
    [] name = "generate_response" -> 6
    [] name = "validate_output" -> 7
    [] OTHER -> 0

\* C18: within one answer_question call the collaborator calls are made one
\* after the other in a fixed order: validate_input, the retriever search,
\* the web search (only if the fallback condition holds), the first
\* generator call, validate_output; the web search never comes before the
\* retriever search has returned, nor the generator before the web fallback
\* decision; only the regeneration repeats a call.
C18_CallsInFixedOrder ==
  /\ \A i \in DOMAIN trace : StageOf(trace[i]) > 0
  /\ \A i, j \in DOMAIN trace :
       (i < j /\ StageOf(trace[i]) < 6) => StageOf(trace[i]) < StageOf(trace[j])
  /\ LET before == Cardinality({i \in DOMAIN trace : StageOf(trace[i]) < 6})
         generation == <<"generate_response", "validate_output",
                         "generate_response", "validate_output">>
     IN /\ Len(trace) - before <= Len(generation)
        /\ \A k \in 1..(Len(trace) - before) : trace[before + k] = generation[k]
  /\ trace # << >> => trace[1] = "validate_input"
  /\ Calls("search_math_content") > 0
       => /\ Calls("search") = 1
          /\ pc # "raised"
          /\ WebSearchTriggered(config, loc.has_kb_context, loc.best_kb_score)
  /\ Calls("generate_response") > 0
       => /\ Calls("search") = 1
          /\ pc \notin {"kb_search", "web_search"}
          /\ Calls("search_math_content") = 1
               <=> WebSearchTriggered(config, loc.has_kb_context, loc.best_kb_score)

\* a call made every collaborator call, the regeneration included, and returned
C18_Witness ==
  /\ Returned
  /\ trace = <<"validate_input", "is_math_related", "search", "search_math_content",
               "validate_answer_exists", "generate_response", "validate_output",
               "generate_response", "validate_output">>

\* the web search was made and failed: success false, or no results
WebSearchFailed ==
  /\ Calls("search_math_content") > 0
  /\ memo.web # None
  /\ (~memo.web[1].success \/ memo.web[1].results = << >>)

\* C19: when the retriever result is empty and the web search fails
\* (success false, or no results), answer_question reports no error: it
\* generates with no context and returns source 'LLM General Knowledge',
\* used_web false, no cited sources and success true.
C19_WebFailureFallsThrough ==
  (loc.kb_results = << >> /\ WebSearchFailed)
    => /\ pc # "raised"
       /\ Calls("generate_response") > 0 => loc.final_context = None
       /\ Returned => /\ result[1].source = "LLM General Knowledge"
                      /\ result[1].used_web = FALSE
                      /\ result[1].sources = << >>
                      /\ result[1].success = TRUE
                      /\ Calls("generate_response") > 0

\* the web search raised, and the answer came from general knowledge
C19_Witness ==
  /\ Returned
  /\ loc.kb_results = << >>
  /\ WebSearchFailed
  /\ ~memo.web[1].success
  /\ result[1].source = "LLM General Knowledge"

\* what the generator answered to the regeneration prompt of the call
RegeneratedAnswers ==
  {generate_response(e.completion) :
     e \in {x \in memo.gen : x.prompt = question \o SafetySuffix}}

\* C20: the output verdict in a returned answer record is the verdict of the
\* answer text in that record; after a regeneration the record holds the
\* regenerated text and its verdict, also when that verdict fails again.
C20_VerdictOfReturnedAnswer ==
  (Returned /\ result[1].success)
    => /\ result[1].output_validation = validate_output(result[1].answer)
       /\ Calls("generate_response") = 2 => RegeneratedAnswers = {result[1].answer}

\* the regenerated text differs from the first one, fails the output guard
\* again and is returned
C20_Witness ==
  /\ Returned
  /\ Calls("generate_response") = 2
  /\ ~result[1].output_validation.is_valid
  /\ result[1].output_validation.severity = "high"
  /\ \E e \in memo.gen :
       e.prompt = question /\ generate_response(e.completion) # result[1].answer

\* the web search of the call returned results
WebResultsReturned ==
  /\ Calls("search_math_content") > 0
  /\ memo.web # None
  /\ memo.web[1].success
  /\ memo.web[1].results # << >>

\* the URLs of the results the web search returned
WebUrls == {memo.web[1].results[i].url : i \in DOMAIN memo.web[1].results}

\* C21: when the web search returns results of which none holds at least
\* half of the question's distinct lowercase word tokens in its title,
\* snippet and content, the results are discarded: used_web is false, no web
\* URL is cited and the generator context holds no web text.
C21_WeakWebResultsDiscarded ==
  (WebResultsReturned /\ ~HalfOfTermsInOneResult(question, memo.web[1].results))
    => /\ loc.web_results = None
       /\ loc.web_context = None
       /\ Range(loc.sources) \cap WebUrls = {}
       /\ loc.final_context # None
            => \A i \in DOMAIN loc.final_context[1] :
                 loc.final_context[1][i].block = "PDF Source"
       /\ Returned => /\ result[1].used_web = FALSE
                      /\ Range(result[1].sources) \cap WebUrls = {}
                      /\ result[1].source # "Web Search"

\* web results that miss the question were dropped and the answer came from
\* general knowledge
C21_Witness ==
  /\ Returned
  /\ WebResultsReturned
  /\ ~HalfOfTermsInOneResult(question, memo.web[1].results)
  /\ result[1].source = "LLM General Knowledge"
  /\ result[1].used_web = FALSE

\* the verdict on the first generated answer of the call
FirstVerdicts ==
  {validate_output(generate_response(e.completion)) :
     e \in {x \in memo.gen : x.prompt = question}}

\* C22: answer_question calls the generator a second time if and only if
\* the verdict on the first output is invalid with severity high; the second
\* call gets the context of the first; an output rejected with severity
\* medium (response_too_short) is returned after one generator call.
C22_RegenerationIffHigh ==
  /\ pc = "regenerate"
       => /\ Calls("generate_response") = 1
          /\ ~loc.output_validation.is_valid
          /\ loc.output_validation.severity = "high"
  /\ (pc = "respond" /\ Calls("generate_response") = 1)
       => (loc.output_validation.is_valid \/ loc.output_validation.severity # "high")
  /\ (Returned /\ result[1].success)
       => /\ Calls("generate_response") \in {1, 2}
          /\ \A v \in FirstVerdicts :
               Calls("generate_response") = 2 <=> (~v.is_valid /\ v.severity = "high")
          /\ \A e \in memo.gen : e.context = loc.final_context

\* an output too short was returned after one generator call
C22_Witness ==
  /\ Returned
  /\ result[1].success
  /\ Calls("generate_response") = 1
  /\ result[1].output_validation.reason = "response_too_short"
  /\ result[1].output_validation.severity = "medium"

\* C26: the retriever returns only passages of score 0.5 or more, so a
\* non-empty result never scores below 0.4: the web search is invoked exactly
\* when the retriever result is empty, and no returned record has used_kb
\* and used_web both true.
C26_WebSearchIffNoPassages ==
  /\ \A i \in DOMAIN loc.kb_results : loc.kb_results[i].score >= 50
  /\ FallbackDecided => (Calls("search_math_content") > 0 <=> loc.kb_results = << >>)
  /\ (Returned /\ result[1].success) => ~(result[1].used_kb /\ result[1].used_web)

\* passages of score exactly 0.5 were returned and the web search was skipped
C26_Witness ==
  /\ Returned
  /\ result[1].success
  /\ result[1].used_kb
  /\ result[1].kb_confidence = 50
  /\ Calls("search_math_content") = 0

\* the call returned a block record
BlockReturned ==
  Returned /\ result[1].source \in {"Guardrails Blocked", "Math Filter"}

\* C27: when answer_question returns a block record ('Guardrails Blocked'
\* or 'Math Filter'), the call made no retriever search, no web search, no
\* generator call and no operation on the feedback store.
C27_BlockedCallsNoCollaborator ==
  BlockReturned
    => /\ Calls("search") = 0
       /\ Calls("search_math_content") = 0
       /\ Calls("generate_response") = 0
       /\ Range(trace) \subseteq {"validate_input", "is_math_related"}
       /\ memo.kb = None /\ memo.web = None /\ memo.gen = {}
       /\ store = EmptyStore
  /\ session = NewSession
  /\ writers = NoWriters

\* an off-topic question was stopped by the relevance gate
C27_Witness ==
  /\ BlockReturned
  /\ result[1].source = "Math Filter"
  /\ trace = <<"validate_input", "is_math_related">>

\* C28 as stated: a returned answer text that contains a denylisted term was
\* regenerated, whatever its length.
C28_DenylistedOutputRegenerated ==
  (Returned /\ result[1].success /\ Calls("generate_response") = 1)
    => ~Denylisted(result[1].answer)

\* C28 amended: a first output that contains a denylisted term is classified
\* severity high and regenerated exactly when its trimmed length is 20 or
\* more; a shorter one is 'response_too_short' with severity medium, is not
\* regenerated and is returned with success true.
C28_LongDenylistedOutputRegenerated ==
  (/\ pc \in {"regenerate", "respond", "returned"}
   /\ Calls("generate_response") = 1
   /\ Denylisted(loc.answer))
    => IF Len(Strip(loc.answer)) >= 20
       THEN /\ pc = "regenerate"
            /\ loc.output_validation.severity = "high"
       ELSE /\ pc # "regenerate"
            /\ loc.output_validation.reason = "response_too_short"
            /\ loc.output_validation.severity = "medium"
            /\ Returned => result[1].success /\ result[1].answer = loc.answer

\* the answer "kill" was returned without a regeneration
C28_Witness ==
  /\ Returned
  /\ result[1].success
  /\ Calls("generate_response") = 1
  /\ Denylisted(result[1].answer)
  /\ Len(Strip(result[1].answer)) < 20

\* C23: every refine_response call makes one generator call, with no
\* retrieved context, no retriever call and no web search, runs
\* validate_output once, and returns success true whatever the output
\* verdict is: there is no regeneration, even for severity high.
C23_RefinementIsOneShot ==
  Refining
    => /\ Len(trace) <= 3
       /\ \A i \in DOMAIN trace :
            trace[i] = <<"generate_response", "validate_output",
                         "store_refined_response">>[i]
       /\ \A e \in memo.gen : e.context = None
       /\ memo.kb = None /\ memo.web = None
       /\ Returned => /\ Calls("generate_response") = 1
                      /\ Calls("validate_output") = 1
                      /\ Cardinality(memo.gen) = 1
                      /\ result[1].success = TRUE
                      /\ result[1].validation = validate_output(result[1].refined_answer)

\* a refined answer rejected with severity high was returned with success true
C23_Witness ==
  /\ Refining
  /\ Returned
  /\ ~result[1].validation.is_valid
  /\ result[1].validation.severity = "high"
  /\ result[1].success

\* C30: the feedback id handle_refinement passes to refine_response for a
\* message is absent or the id of a feedback row recorded for the answer now
\* at that index of the chat: the row holds the question and the answer the
\* refinement is asked for
C30_RefinementIdOfShownAnswer ==
  (pc = "refine_generate" /\ loc.feedback_id # None)
    => \E k \in DOMAIN store.feedback :
         /\ store.feedback[k].id = loc.feedback_id[1]
         /\ store.feedback[k].question = loc.original_question
         /\ store.feedback[k].response = loc.original_response

\* s is an initial part of t
IsPrefix(s, t) ==
  Len(s) <= Len(t) /\ SubSeq(t, 1, Len(s)) = s

\* C25: a refinement never edits what was stored or shown before: while
\* refine_response runs and when its answer is shown, the feedback rows and
\* the analytics stay as they are, the refinements table only gains rows at
\* its end, and the chat only gains messages at its end
C25_RefinementOnlyAppends ==
  [][Refining =>
       /\ store'.feedback = store.feedback
       /\ store'.response_analytics = store.response_analytics
       /\ IsPrefix(store.refinements, store'.refinements)
       /\ IsPrefix(session.chat_history, session'.chat_history)]_vars

\* a stored refinement is shown after the answer it refines, which is still
\* in the chat with the content its feedback row holds
C25_Witness ==
  /\ pc = "idle"
  /\ store.refinements # << >>
  /\ \E i \in DOMAIN session.chat_history :
       /\ i > 1
       /\ session.chat_history[i].is_refined
       /\ session.chat_history[i].content = store.refinements[1].refined_response
       /\ ~session.chat_history[i - 1].is_refined
       /\ session.chat_history[i - 1].content = store.feedback[1].response

\* C24: answer_question and refine_response never write the orchestrator's
\* configuration, which keeps the values of the constructor, and no step of
\* answer_question, from its call to the display of its answer, writes to the
\* feedback store
C24_CallsWriteNoOrchestratorState ==
  /\ [](config = [min_confidence_score |-> InitMinConfidence,
                  enable_web_search |-> TRUE,
                  web_search_threshold |-> InitWebThreshold])
  /\ [][config' = config]_vars
  /\ [][(pc # "idle" /\ ~Refining) => store' = store]_vars

\* answer_question has returned in a session whose store holds a feedback
\* row and a refinement an earlier refine_response call stored
C24_Witness ==
  /\ pc = "returned"
  /\ ~Refining
  /\ Len(trace) > 0
  /\ store.feedback # << >>
  /\ store.refinements # << >>

\* the feedback rows of the source that carry a rating
RatedRows(source) ==
  {i \in DOMAIN store.feedback :
     store.feedback[i].source = source /\ store.feedback[i].rating # None}

\* C29: when no record_feedback call is in flight, every source with rated
\* feedback rows has analytics whose total_responses is the number of those
\* rows, positive_feedback the number rated >= 4 and negative_feedback the
\* number rated <= 2, and a source without rated rows has no analytics row
C29_AnalyticsCountFeedback ==
  (\A w \in Writers : writers[w].pc = "ready")
    => \A source \in RatedSources :
         LET rows == {j \in DOMAIN store.response_analytics :
                        store.response_analytics[j].question_type = source}
         IN /\ (rows # {}) = (RatedRows(source) # {})
            /\ \A j \in rows :
                 /\ store.response_analytics[j].total_responses
                      = Cardinality(RatedRows(source))
                 /\ store.response_analytics[j].positive_feedback
                      = Cardinality({i \in RatedRows(source) :
                                       store.feedback[i].rating[1] >= 4})
                 /\ store.response_analytics[j].negative_feedback
                      = Cardinality({i \in RatedRows(source) :
                                       store.feedback[i].rating[1] <= 2})

====
